---- MODULE Spec2Model ----
(***************************************************************************)
(* A model of the configuration object (mubench/base/args.py), the dataset *)
(* with its on-disk cache (mubench/dnn/dataset/dataset.py and the ChemBERTa*)
(* subclass) and the GROVER trainer's initialisation steps                 *)
(* (mubench/grover/train.py).                                              *)
(*                                                                         *)
(* Python values: an Optional value is None == <<>> or Some(x) == <<x>>.   *)
(* An object's __dict__ is a function from attribute names to values.      *)
(* A JSON object is a sequence of key/value records, in file order.        *)
(***************************************************************************)
EXTENDS Integers, Sequences, FiniteSets, TLC

VARIABLES
    cfg,      \* __dict__ of the Config object c
    args,     \* __dict__ of the Arguments object parsed from the command line
    disk,     \* config.json in the result directory: None or Some(json)
    loaded,   \* __dict__ of Config().load(dir) made after the last save, or None
    synced,   \* TRUE while config.json is what c.save wrote and c is unchanged since
    cop,      \* the last Config operation
    cin,      \* the JSON file that operation read: Some(json), or None if absent
    cerr,     \* the exception the last Config operation raised, or "none"
    cread     \* reads of the cached properties: the last value returned and,
              \* per property, the value its first read returned

cvars == <<cfg, args, disk, loaded, synced, cop, cin, cerr, cread>>

VARIABLES
    ds,       \* __dict__ of the Dataset object
    dcfg,     \* the config the dataset is prepared with: class, model, feature type
    csv,      \* the partition CSV files under data_dir, by partition
    cache,    \* the pre-processed dataset files, by path
    dop       \* the last Dataset operation: what it was called with and what it did

dvars == <<ds, dcfg, csv, cache, dop>>

VARIABLES
    tr,       \* the Trainer's _model, _optimizer, _scheduler
    tcfg,     \* the trainer's config: n_epochs and valid_epoch_interval
    tpc,      \* where the trainer's run is
    tepoch,   \* training epochs completed
    tlog,     \* the calls made so far, in order
    terr,     \* the exception that ended the run, or "none"
    lin,      \* a training batch: the two logit arrays, masks, task losses
    lout,     \* what get_distance_loss / get_loss last returned
    pool      \* the worker pool of create_features and its imap iterator

tvars == <<tr, tcfg, tpc, tepoch, tlog, terr>>

lvars == <<lin, lout>>

pvars == <<pool>>

vars == <<cvars, dvars, tvars, lvars, pvars>>

---------------------------------------------------------------------------
(* Bounds *)

MaxSwa == 1
MaxClasses == 3
MaxMol == 2
NTasks == 2
MaxEpochs == 4
MaxInterval == 2
MaxParams == 2
MaxEntries == 2
MaxLogit == 1
MaxWorkers == 2

---------------------------------------------------------------------------
(* Python values *)

None == <<>>
Some(x) == <<x>>
KV(key, value) == [k |-> key, v |-> value]
Range0(n) == [i \in 1..n |-> i - 1]

---------------------------------------------------------------------------
(* Arguments: the dataclass fields, in declaration order (only these are   *)
(* returned by dataclasses.asdict).  Fields that no operation below reads  *)
(* (dropout, lr, batch_size, ...) behave like disable_wandb and are left   *)
(* out; the torch-derived device attributes are kept only as the names of  *)
(* the read-only properties.                                               *)

FieldOrder ==
    << "wandb_project", "wandb_name", "disable_wandb", "dataset_name",
       "dataset_splitting_random_seed", "data_dir",
       "binary_classification_with_softmax", "regression_with_variance",
       "uncertainty_method", "feature_type", "n_swa_epochs", "k_swa_checkpoints", "n_test" >>

Fields == {FieldOrder[i] : i \in 1..Len(FieldOrder)}

\* Class attributes of Config that are not dataclass fields (no annotation).
ConfigClassAttrs == {"classes", "task_type", "n_tasks"}

\* functools.cached_property members: computed on first read, then kept in __dict__.
CachedProps == {"n_lbs", "d_feature"}

\* @property without a setter: setattr raises AttributeError.
ReadOnlyProps == {"device", "n_gpu"}

Methods == {"get_meta", "from_args", "save", "load"}

ClassDefault(a) ==
    CASE a = "classes" -> None
      [] a = "task_type" -> "classification"
      [] a = "n_tasks" -> None

\* dir(self): the instance's own names and the names of its class.
Dir(d) == DOMAIN d \cup Fields \cup ConfigClassAttrs \cup CachedProps
            \cup ReadOnlyProps \cup Methods

\* getattr for the plain data attributes: instance first, then class.
GetAttr(d, a) == IF a \in DOMAIN d THEN d[a] ELSE ClassDefault(a)

\* setattr(self, a, v): [err, d].
SetAttr(d, a, v) ==
    IF a \in ReadOnlyProps
    THEN [err |-> "AttributeError", d |-> d]
    ELSE [err |-> "none", d |-> (a :> v) @@ d]

\* os.path.join of the data directory, the dataset name and the split folder;
\* a path is a sequence of components and an empty component adds nothing.
SplitName(seed) == IF seed = 0 THEN "split-0" ELSE "split-n"
PathJoin(dir, name, leaf) == dir \o (IF name = "" THEN <<>> ELSE <<name>>) \o <<leaf>>

\* wandb_project and wandb_name and not disable_wandb (Python's and returns
\* the first falsy operand).
ApplyWandb(d) ==
    IF d["wandb_project"] = None THEN None
    ELSE IF d["wandb_name"] = None THEN None
    ELSE Some(~d["disable_wandb"])

NTestDefault(d) ==
    IF d["uncertainty_method"] \in {"MC-Dropout", "SWAG"}
    THEN (IF d["n_test"] > 1 THEN d["n_test"] ELSE 20)
    ELSE d["n_test"]

KSwaClamp(d) ==
    IF d["k_swa_checkpoints"] > d["n_swa_epochs"]
    THEN d["n_swa_epochs"] ELSE d["k_swa_checkpoints"]

\* Arguments.__post_init__ applied to the fields the constructor stored.
PostInit(d) ==
    ("apply_wandb" :> ApplyWandb(d)) @@
    [a \in DOMAIN d |->
        CASE a = "data_dir" ->
                PathJoin(d["data_dir"], d["dataset_name"],
                         SplitName(d["dataset_splitting_random_seed"]))
          [] a = "n_test" -> NTestDefault(d)
          [] a = "k_swa_checkpoints" -> KSwaClamp(d)
          [] OTHER -> d[a]]

\* The keyword arguments a constructor call is made with: the flags range
\* over flags, the two SWA counts over swa.
CtorArgs(flags, swa) ==
    [wandb_project : {Some("proj")},
     wandb_name : {Some("run")},
     disable_wandb : {FALSE},
     dataset_name : {"bbbp"},
     dataset_splitting_random_seed : {0},
     data_dir : {<<"data">>},
     binary_classification_with_softmax : flags,
     regression_with_variance : flags,
     uncertainty_method : {"SWAG"},
     feature_type : {"rdkit"},
     n_swa_epochs : swa,
     k_swa_checkpoints : swa,
     n_test : {1}]

\* The dataclass defaults (args.py:26-173), within the model's value ranges.
DefaultArgs ==
    [wandb_project |-> None, wandb_name |-> None, disable_wandb |-> FALSE,
     dataset_name |-> "", dataset_splitting_random_seed |-> 0, data_dir |-> <<>>,
     binary_classification_with_softmax |-> FALSE,
     regression_with_variance |-> FALSE, uncertainty_method |-> "none",
     feature_type |-> "none",
     n_swa_epochs |-> MaxSwa, k_swa_checkpoints |-> MaxSwa, n_test |-> 1]

\* Arguments(**kw) / Config(**kw): the generated __init__ stores every field,
\* then __post_init__ runs.
Construct(kw) == PostInit([a \in Fields |-> kw[a]])

---------------------------------------------------------------------------
(* Config *)

\* n_lbs without the binary special case and with the regression head
\* counts exchanged.
NLbsSwapped(d) ==
    IF GetAttr(d, "task_type") = "classification"
    THEN IF GetAttr(d, "classes") = None
         THEN [err |-> "TypeError", val |-> None]
         ELSE [err |-> "none", val |-> Some(Len(GetAttr(d, "classes")[1]))]
    ELSE IF GetAttr(d, "task_type") = "regression"
         THEN [err |-> "none",
               val |-> Some(IF d["regression_with_variance"] THEN 1 ELSE 2)]
         ELSE [err |-> "none", val |-> None]

\* The body of the cached property n_lbs: [err, val]; val is Some(int) or
\* None.  len(None) raises TypeError; for an unknown task type the
\* ValueError is built but not raised, so the body returns None.
NLbs(d) ==
    IF GetAttr(d, "task_type") = "classification"
    THEN IF GetAttr(d, "classes") = None
         THEN [err |-> "TypeError", val |-> None]
         ELSE IF Len(GetAttr(d, "classes")[1]) = 2
                 /\ ~d["binary_classification_with_softmax"]
              THEN [err |-> "none", val |-> Some(1)]
              ELSE [err |-> "none", val |-> Some(Len(GetAttr(d, "classes")[1]))]
    ELSE IF GetAttr(d, "task_type") = "regression"
         THEN [err |-> "none",
               val |-> Some(IF d["regression_with_variance"] THEN 2 ELSE 1)]
         ELSE [err |-> "none", val |-> None]

\* The contents meta.json can have: a classification set with n classes, a
\* regression set that also carries a key Config does not define, a set of
\* a task type n_lbs does not know.
MetaKinds == {"classification", "regression", "ranking"}

MetaFile(kind, n) ==
    CASE kind = "classification" ->
            << KV("task_type", "classification"), KV("n_tasks", Some(1)),
               KV("classes", Some(Range0(n))) >>
      [] kind = "regression" ->
            << KV("task_type", "regression"), KV("random_split", TRUE),
               KV("n_tasks", Some(1)) >>
      [] kind = "ranking" ->
            << KV("task_type", "ranking") >>

\* The for loop of get_meta over meta_dict.items(): a key in dir(self) is
\* set, any other is collected as invalid; an exception of setattr ends the
\* loop with the keys before it already set.
RECURSIVE MergeMeta(_, _)
MergeMeta(d, kvs) ==
    IF kvs = <<>> THEN [err |-> "none", d |-> d]
    ELSE IF Head(kvs).k \in Dir(d)
         THEN LET r == SetAttr(d, Head(kvs).k, Head(kvs).v)
              IN  IF r.err # "none" THEN r ELSE MergeMeta(r.d, Tail(kvs))
         ELSE MergeMeta(d, Tail(kvs))

\* get_meta(meta_dir): file is None when meta.json is absent (open raises).
GetMetaOp(d, file) ==
    IF file = None THEN [err |-> "FileNotFoundError", d |-> d]
    ELSE MergeMeta(d, file[1])

\* The loops of from_args and load: setattr under try/except AttributeError.
RECURSIVE MergeAll(_, _)
MergeAll(d, kvs) ==
    IF kvs = <<>> THEN d
    ELSE LET r == SetAttr(d, Head(kvs).k, Head(kvs).v)
         IN  MergeAll(IF r.err = "AttributeError" THEN d ELSE r.d, Tail(kvs))

\* arg_elements of from_args for an Arguments object: the non-callable
\* attributes of dir(args) without a leading underscore.
ArgElements(ar) ==
    [i \in 1..Len(FieldOrder) |-> KV(FieldOrder[i], ar[FieldOrder[i]])]
    \o << KV("apply_wandb", ar["apply_wandb"]),
          KV("device", "cpu"), KV("n_gpu", 0) >>

FromArgsOp(d, ar) == MergeAll(d, ArgElements(ar))

\* json.dump(asdict(self)): the dataclass fields and nothing else.  The
\* field values are strings, numbers, booleans, None and lists of them,
\* which json.load gives back unchanged.
AsDict(d) == [i \in 1..Len(FieldOrder) |-> KV(FieldOrder[i], d[FieldOrder[i]])]

\* The places a file_dir argument can name: the result directory, the
\* config.json inside it, or a path under a directory that does not exist.
PathKinds == {"dir", "file", "missing"}

\* save(file_dir): [err, disk].
SaveOp(d, dsk, path) ==
    IF path = "missing"
    THEN [err |-> "FileNotFoundError", disk |-> dsk]
    ELSE [err |-> "none", disk |-> Some(AsDict(d))]

\* The file load(file_dir) reads: None when file_dir names no config file.
FileAt(dsk, path) == IF path = "missing" THEN None ELSE dsk

\* load(file_dir): [err, d].  With assertions enabled the assert raises
\* AssertionError (its message is the FileNotFoundError object); under
\* python -O the assert is skipped and open() raises FileNotFoundError.
LoadOp(d, dsk, path, assertions) ==
    IF path = "dir" /\ dsk = None
    THEN [err |-> IF assertions THEN "AssertionError" ELSE "FileNotFoundError",
          d |-> d]
    ELSE IF path = "missing" \/ dsk = None
         THEN [err |-> "FileNotFoundError", d |-> d]
         ELSE [err |-> "none", d |-> MergeAll(d, dsk[1])]

\* A config.json written by hand rather than by save: it sets the two SWA
\* counts and names an attribute Config does not define.
UserFile ==
    << KV("n_swa_epochs", 0), KV("k_swa_checkpoints", MaxSwa),
       KV("checkpoint_path", "ckpt") >>

\* No cached property has been read yet.
NoRead == [ret |-> None, first |-> <<>>]

\* The state after construction: the parsed Arguments, and a Config made
\* either with the defaults or with the same keyword arguments.
ConfigStart(kws) ==
    /\ \E kw \in kws :
         /\ args = Construct(kw)
         /\ cfg \in {Construct(DefaultArgs), Construct(kw)}
    /\ disk = None
    /\ loaded = None
    /\ synced = FALSE
    /\ cop = "init"
    /\ cin = None
    /\ cerr = "none"
    /\ cread = NoRead

\* A cached property that runs its body at every read.
CachedPropertyRecomputed(d, a, r) ==
    IF r.err # "none" THEN [err |-> r.err, val |-> None, d |-> d]
    ELSE [err |-> "none", val |-> r.val, d |-> (a :> r.val) @@ d]

\* functools.cached_property: a read of attribute a finds the value in
\* __dict__, or else runs the body (result r), stores what it returns under
\* the name a and returns it; an exception of the body stores nothing.
CachedProperty(d, a, r) ==
    IF a \in DOMAIN d THEN [err |-> "none", val |-> d[a], d |-> d]
    ELSE IF r.err # "none" THEN [err |-> r.err, val |-> None, d |-> d]
    ELSE [err |-> "none", val |-> r.val, d |-> (a :> r.val) @@ d]

\* The body of d_feature: the second test repeats 'rdkit', so its branch
\* is never taken.
DFeature(d) ==
    IF d["feature_type"] = "rdkit" THEN [err |-> "none", val |-> 200]
    ELSE IF d["feature_type"] = "rdkit" THEN [err |-> "none", val |-> 1024]
    ELSE [err |-> "none", val |-> 0]

\* The record of a read of property a that returned val.
Returned(rd, a, val) ==
    [ret |-> Some(val),
     first |-> IF a \in DOMAIN rd.first THEN rd.first ELSE (a :> val) @@ rd.first]

\* A read of the cached property a whose body gives r.
ReadCached(a, r) ==
    LET p == CachedProperty(cfg, a, r)
    IN  /\ cop' = a
        /\ cin' = None
        /\ cerr' = p.err
        /\ cfg' = p.d
        /\ cread' = IF p.err = "none" THEN Returned(cread, a, p.val)
                    ELSE [cread EXCEPT !.ret = None]
        /\ loaded' = IF p.d = cfg THEN loaded ELSE None
        /\ synced' = (synced /\ p.d = cfg)
        /\ UNCHANGED <<disk, args>>

\* A read of c.n_lbs.
ReadNLbs == ReadCached("n_lbs", NLbs(cfg))

\* A read of c.d_feature.
ReadDFeature == ReadCached("d_feature", DFeature(cfg))

GetMeta ==
    \E kind \in MetaKinds \cup {"absent"},
       n \in 1..MaxClasses :
        LET file == IF kind = "absent" THEN None ELSE Some(MetaFile(kind, n))
            r == GetMetaOp(cfg, file)
        IN  /\ kind # "classification" => n = 1
            /\ cin' = file
            /\ cfg' = r.d
            /\ cerr' = r.err
            /\ cop' = "get_meta"
            /\ loaded' = IF r.d = cfg THEN loaded ELSE None
            /\ synced' = (synced /\ r.d = cfg)
            /\ UNCHANGED <<disk, args, cread>>

FromArgs ==
    /\ cfg' = FromArgsOp(cfg, args)
    /\ cerr' = "none"
    /\ cop' = "from_args"
    /\ cin' = None
    /\ loaded' = IF cfg' = cfg THEN loaded ELSE None
    /\ synced' = (synced /\ cfg' = cfg)
    /\ UNCHANGED <<disk, args, cread>>

Save ==
    \E path \in PathKinds :
        LET r == SaveOp(cfg, disk, path)
        IN  /\ disk' = r.disk
            /\ cerr' = r.err
            /\ cop' = "save"
            /\ cin' = None
            /\ synced' = IF r.err = "none" THEN TRUE ELSE synced
            /\ loaded' = IF r.err = "none" THEN None ELSE loaded
            /\ UNCHANGED <<cfg, args, cread>>

\* c.load(file_dir) on the object itself.
Load ==
    \E path \in PathKinds, assertions \in BOOLEAN :
        LET r == LoadOp(cfg, disk, path, assertions)
        IN  /\ cfg' = r.d
            /\ cerr' = r.err
            /\ cop' = "load"
            /\ cin' = FileAt(disk, path)
            /\ loaded' = IF r.d = cfg THEN loaded ELSE None
            /\ synced' = (synced /\ r.d = cfg)
            /\ UNCHANGED <<disk, args, cread>>

\* Config().load(file_dir) on a newly constructed object.
LoadFresh ==
    \E path \in PathKinds, assertions \in BOOLEAN :
        LET r == LoadOp(Construct(DefaultArgs), disk, path, assertions)
        IN  /\ loaded' = IF r.err = "none" THEN Some(r.d) ELSE None
            /\ cerr' = r.err
            /\ cop' = "load_fresh"
            /\ cin' = FileAt(disk, path)
            /\ UNCHANGED <<cfg, args, disk, synced, cread>>

\* The user puts a hand-written config.json into the result directory.
WriteUserFile ==
    /\ disk' = Some(UserFile)
    /\ synced' = FALSE
    /\ loaded' = None
    /\ cop' = "write_file"
    /\ cin' = None
    /\ cerr' = "none"
    /\ UNCHANGED <<cfg, args, cread>>


---------------------------------------------------------------------------
(* Dataset.  A SMILES string is a molecule number; a label or mask array  *)
(* is a sequence of rows, one per molecule, each a sequence over the tasks.*)

Partitions == {"train", "valid", "test"}

\* numpy's shape of a two-dimensional array.
Shape(a) == <<Len(a), IF Len(a) = 0 THEN 0 ELSE Len(a[1])>>

\* np.ones_like(a).astype(int)
OnesLike(a) == [i \in 1..Len(a) |-> [j \in 1..Len(a[i]) |-> 1]]

\* What pd.read_csv and literal_eval give for a partition CSV of n
\* molecules: the smiles column, the labels, and the masks column (None when
\* every cell of the column is null).
CsvFile(n, withMasks) ==
    [smiles |-> [i \in 1..n |-> i],
     labels |-> [i \in 1..n |-> [j \in 1..NTasks |-> (i + j) % 2]],
     masks  |-> IF withMasks
                THEN Some([i \in 1..n |-> [j \in 1..NTasks |-> IF j = 1 THEN 1 ELSE i % 2]])
                ELSE None]

\* Dataset.__init__ (the ChemBERTa subclass adds _atom_ids).
NewDataset(class) ==
    LET base == [a \in {"_features", "_smiles", "_lbs", "_masks", "data_instances"}
                    |-> None]
    IN  IF class = "chemberta" THEN ("_atom_ids" :> None) @@ base ELSE base

\* regex.match("^_[a-z]", attr) over the attribute names a Dataset can have.
IsPrivateName(a) == a \in {"_features", "_smiles", "_lbs", "_masks", "_atom_ids"}

\* f"{model_name}-{feature_type}"
Hyphenated(model, ft) ==
    CASE model = "DNN" /\ ft = "rdkit" -> "DNN-rdkit"
      [] model = "DNN" /\ ft = "morgan" -> "DNN-morgan"
      [] model = "ChemBERTa" /\ ft = "rdkit" -> "ChemBERTa-rdkit"
      [] model = "ChemBERTa" /\ ft = "morgan" -> "ChemBERTa-morgan"

MethodIdentifier(c) ==
    IF c.feature_type # "none" THEN Hyphenated(c.model_name, c.feature_type)
    ELSE c.model_name

\* data_dir/processed/{method_identifier}/{partition}.pt
PreprocessedPath(c, partition) ==
    c.data_dir \o <<"processed", MethodIdentifier(c), partition>>

\* read_csv
ReadCsv(d, file) ==
    [d EXCEPT !["_smiles"] = Some(file.smiles),
              !["_lbs"] = Some(file.labels),
              !["_masks"] = file.masks]

\* The feature generators and the tokenizer, as uninterpreted functions of
\* the molecule.
Feature(kind, smiles) == <<kind, smiles>>

\* create_features: pool.imap yields the results in the order of the inputs.
CreateFeatures(d, c) ==
    IF c.class = "chemberta"
    THEN [d EXCEPT !["_atom_ids"] =
            Some([i \in 1..Len(d["_smiles"][1]) |-> Feature("tokens", d["_smiles"][1][i])])]
    ELSE IF c.feature_type \in {"rdkit", "morgan"}
    THEN [d EXCEPT !["_features"] =
            Some([i \in 1..Len(d["_smiles"][1]) |->
                    Feature(c.feature_type, d["_smiles"][1][i])])]
    ELSE [d EXCEPT !["_features"] =
            Some([i \in 1..Len(d["_smiles"][1]) |-> Feature("nan", 0)])]

\* save called before the features were created: the file holds none.
SaveAttrsBeforeFeatures(d) ==
    [a \in {x \in DOMAIN d : IsPrivateName(x)} |->
        IF a \in {"_features", "_atom_ids"} THEN None ELSE d[a]]

\* save: the attribute bag torch.save writes.
SaveAttrs(d) == [a \in {x \in DOMAIN d : IsPrivateName(x)} |-> d[a]]

\* load: setattr of every attribute in the file.
LoadAttrs(d, bag) == bag @@ d

Min2(a, b) == IF a <= b THEN a ELSE b

\* pack_instances(**columns): one record per molecule, zip over the columns
\* (iterating over None raises TypeError).
PackInstances(features, lbs, masks) ==
    IF features = None \/ lbs = None
    THEN [err |-> "TypeError", inst |-> None]
    ELSE [err |-> "none",
          inst |-> Some([i \in 1..Min2(Len(features[1]), Min2(Len(lbs[1]), Len(masks)))
                            |-> [features |-> features[1][i],
                                 lbs |-> lbs[1][i],
                                 masks |-> masks[i]]])]

\* masks that ignores the stored mask array.
MasksBodyIgnoresStored(d) == OnesLike(d["_lbs"][1])

\* The body of the cached property masks.
MasksBody(d) ==
    IF d["_masks"] # None THEN d["_masks"][1] ELSE OnesLike(d["_lbs"][1])

\* self.masks: the value kept in __dict__ by cached_property once computed.
ReadMasks(d) == IF "masks" \in DOMAIN d THEN d ELSE ("masks" :> MasksBody(d)) @@ d

\* self.data_instances = self.get_instances(): [err, d].  The arguments of
\* pack_instances are evaluated first, so masks is cached even if packing
\* fails.
GetInstances(d, c) ==
    LET d1 == ReadMasks(d)
        r  == PackInstances(IF c.class = "chemberta" THEN d1["_atom_ids"]
                            ELSE d1["_features"],
                            d1["_lbs"], d1["masks"])
    IN  [err |-> r.err,
         d |-> IF r.err = "none" THEN [d1 EXCEPT !["data_instances"] = r.inst] ELSE d1]

\* update_lbs(lbs): [err, d].
UpdateLbsOp(d, c, lbs) == GetInstances([d EXCEPT !["_lbs"] = Some(lbs)], c)

\* prepare that takes the cache whenever it exists.
UseCacheAlways(files, path, ignore) == path \in DOMAIN files

\* The test of prepare: load the pre-processed file?
UseCache(files, path, ignore) == path \in DOMAIN files /\ ~ignore

\* prepare(config, partition): [err, d, cache, path], path being the branch
\* taken.  ignore and nosave are config.ignore_preprocessed_dataset and
\* config.disable_dataset_saving.
PrepareOp(d, c, files, csvs, partition, ignore, nosave) ==
    LET path == PreprocessedPath(c, partition)
    IN  IF UseCache(files, path, ignore)
        THEN LET r == GetInstances(LoadAttrs(d, files[path]), c)
             IN  [err |-> r.err, d |-> r.d, cache |-> files, path |-> "cache"]
        ELSE IF partition \notin DOMAIN csvs
        THEN [err |-> "FileNotFoundError", d |-> d, cache |-> files, path |-> "csv"]
        ELSE LET d1 == CreateFeatures(ReadCsv(d, csvs[partition]), c)
                 r  == GetInstances(d1, c)
             IN  [err |-> r.err, d |-> r.d,
                  cache |-> IF nosave THEN files ELSE (path :> SaveAttrs(d1)) @@ files,
                  path |-> "csv"]

DatasetConfigs ==
    [class : {"dnn"}, model_name : {"DNN"}, feature_type : {"none", "rdkit", "morgan"},
     data_dir : {<<"data", "bbbp", "split-0">>}]
    \cup
    [class : {"chemberta"}, model_name : {"ChemBERTa"}, feature_type : {"none"},
     data_dir : {<<"data", "bbbp", "split-0">>}]

NoOp == [op |-> "init", partition |-> "train", ignore |-> FALSE, nosave |-> FALSE,
         path |-> "none", err |-> "none"]

\* A new Dataset, nothing pre-processed yet; train.csv has MaxMol molecules,
\* valid.csv one, each with or without mask values; there is no test.csv.
DatasetStart ==
    /\ dcfg \in DatasetConfigs
    /\ ds = NewDataset(dcfg.class)
    /\ \E mt \in BOOLEAN, mv \in BOOLEAN :
          csv = ("train" :> CsvFile(MaxMol, mt)) @@ ("valid" :> CsvFile(1, mv))
    /\ cache = <<>>
    /\ dop = NoOp

Prepare ==
    \E partition \in Partitions, ignore \in BOOLEAN, nosave \in BOOLEAN :
        LET r == PrepareOp(ds, dcfg, cache, csv, partition, ignore, nosave)
        IN  /\ ds' = r.d
            /\ cache' = r.cache
            /\ dop' = [op |-> "prepare", partition |-> partition, ignore |-> ignore,
                       nosave |-> nosave, path |-> r.path, err |-> r.err]
            /\ UNCHANGED <<dcfg, csv>>

\* update_lbs with pseudo-labels for n molecules.
UpdateLbs ==
    \E n \in 1..MaxMol :
        LET r == UpdateLbsOp(ds, dcfg, [i \in 1..n |-> [j \in 1..NTasks |-> 1]])
        IN  /\ ds' = r.d
            /\ dop' = [NoOp EXCEPT !.op = "update_lbs", !.err = r.err]
            /\ UNCHANGED <<dcfg, csv, cache>>

---------------------------------------------------------------------------
(* create_features with the worker pool: get_context('fork').Pool(n) and   *)
(* pool.imap(generator, self._smiles), consumed by the list comprehension. *)

\* imap_unordered's iterator: every result is ready as it arrives.
IMapUnorderedSet(it, i, obj) ==
    [it EXCEPT !.items = Append(it.items, obj), !.index = it.index + 1]

\* Moves the results waiting in _unsorted to _items while the next index
\* is among them.
RECURSIVE FlushUnsorted(_)
FlushUnsorted(it) ==
    IF it.index \in DOMAIN it.unsorted
    THEN FlushUnsorted([items |-> Append(it.items, it.unsorted[it.index]),
                        index |-> it.index + 1,
                        unsorted |-> [k \in DOMAIN it.unsorted \ {it.index}
                                         |-> it.unsorted[k]]])
    ELSE it

\* The iterator imap returns, when the result of task i arrives: the result
\* is ready if i is the next index, else it waits in _unsorted.
IMapSet(it, i, obj) ==
    IF it.index = i
    THEN FlushUnsorted([it EXCEPT !.items = Append(it.items, obj),
                                  !.index = it.index + 1])
    ELSE [it EXCEPT !.unsorted = (i :> obj) @@ it.unsorted]

NewIterator == [items |-> <<>>, index |-> 1, unsorted |-> <<>>]

NoPool ==
    [pc |-> "idle", n_workers |-> 1, taskq |-> <<>>, busy |-> <<None>>,
     it |-> NewIterator, out |-> <<>>, overtaken |-> FALSE]

\* A Dataset whose CSV has been read, before create_features; the config
\* names the feature type and the number of pool workers.
PoolStart ==
    /\ dcfg \in {c \in DatasetConfigs : c.class = "dnn"}
    /\ \E n \in 1..MaxMol, withMasks \in BOOLEAN :
          ds = ReadCsv(NewDataset("dnn"), CsvFile(n, withMasks))
    /\ csv = <<>>
    /\ cache = <<>>
    /\ dop = NoOp
    /\ \E w \in 1..MaxWorkers :
          pool = [NoPool EXCEPT !.n_workers = w, !.busy = [k \in 1..w |-> None]]

\* create_features up to the first wait: without a pool for feature type
\* 'none'; else the pool is forked and imap queues one task per molecule,
\* in the order of self._smiles.
CreateFeaturesCall ==
    /\ pool.pc = "idle"
    /\ IF dcfg.feature_type \in {"rdkit", "morgan"}
       THEN /\ pool' = [pool EXCEPT
                          !.pc = "imap",
                          !.taskq = [i \in DOMAIN ds["_smiles"][1] |->
                                        [i |-> i, smiles |-> ds["_smiles"][1][i]]]]
            /\ UNCHANGED ds
       ELSE /\ ds' = CreateFeatures(ds, dcfg)
            /\ pool' = [pool EXCEPT !.pc = "created"]
    /\ UNCHANGED <<dcfg, csv, cache, dop>>

\* An idle worker takes the next task of the queue.
WorkerTake ==
    \E w \in DOMAIN pool.busy :
        /\ pool.pc = "imap"
        /\ pool.busy[w] = None
        /\ pool.taskq # <<>>
        /\ pool' = [pool EXCEPT !.busy[w] = Some(Head(pool.taskq)),
                                !.taskq = Tail(pool.taskq)]
        /\ UNCHANGED dvars

\* A worker finishes its task: it applies the generator to its own copy of
\* the SMILES string and the result reaches the iterator.
WorkerDone ==
    \E w \in DOMAIN pool.busy :
        /\ pool.pc = "imap"
        /\ pool.busy[w] # None
        /\ LET task == pool.busy[w][1]
           IN  pool' = [pool EXCEPT
                          !.busy[w] = None,
                          !.it = IMapSet(pool.it, task.i,
                                         Feature(dcfg.feature_type, task.smiles)),
                          !.overtaken = pool.overtaken \/ task.i # pool.it.index]
        /\ UNCHANGED dvars

\* The list comprehension takes the next ready result.
NextResult ==
    /\ pool.pc = "imap"
    /\ pool.it.items # <<>>
    /\ pool' = [pool EXCEPT !.out = Append(pool.out, Head(pool.it.items)),
                            !.it.items = Tail(pool.it.items)]
    /\ UNCHANGED dvars

\* The iterator is exhausted: the list becomes self._features and the with
\* block closes the pool.
CreateFeaturesReturn ==
    /\ pool.pc = "imap"
    /\ pool.it.items = <<>>
    /\ pool.it.index = Len(ds["_smiles"][1]) + 1
    /\ ds' = [ds EXCEPT !["_features"] = Some(pool.out)]
    /\ pool' = [pool EXCEPT !.pc = "created"]
    /\ UNCHANGED <<dcfg, csv, cache, dop>>

\* self.data_instances = self.get_instances()
GetInstancesCall ==
    /\ pool.pc = "created"
    /\ ds' = GetInstances(ds, dcfg).d
    /\ pool' = [pool EXCEPT !.pc = "packed"]
    /\ UNCHANGED <<dcfg, csv, cache, dop>>

---------------------------------------------------------------------------
(* GROVER Trainer *)

\* Trainer.__init__ before any initialize_* call.
NewTrainer == [_model |-> None, _optimizer |-> None, _scheduler |-> None]

\* Parameter names, as their dot-separated pieces with "ffn" and "grover"
\* split off: "grover.encoders.weight", "grover.encoders.ffn.weight",
\* "mol_atom_from_atom_ffn.weight", "readout.bias".
ParamNames ==
    { <<"grover", "encoders", "weight">>,
      <<"grover", "encoders", "ffn", "weight">>,
      <<"mol_atom_from_atom_", "ffn", "weight">>,
      <<"readout", "bias">> }

\* Python's `piece in name` on strings, over the pieces of a name.
Substr(piece, name) == \E i \in DOMAIN name : name[i] = piece

RECURSIVE NoRepeat(_)
NoRepeat(names) ==
    \/ names = <<>>
    \/ /\ \A i \in 2..Len(names) : names[i] # names[1]
       /\ NoRepeat(Tail(names))

\* The checkpoints load_checkpoint may find: the names of the model's
\* parameters, in the order model.parameters() and state_dict() give them.
Checkpoints ==
    { names \in UNION { [1..n -> ParamNames] : n \in 1..MaxParams } : NoRepeat(names) }

\* initialize_model that loads the checkpoint but does not keep it.
InitializeModelDropped(t, c) == t

\* initialize_model: self._model = load_checkpoint(self.config).  A loaded
\* parameter has requires_grad True.
InitializeModel(t, c) ==
    [t EXCEPT !["_model"] =
        Some([i \in DOMAIN c.checkpoint |->
                 [name |-> c.checkpoint[i], requires_grad |-> TRUE]])]

\* id(x): two objects alive together never share an id.  A parameter is
\* named by its position in model.parameters().
Id(kind, i) == <<kind, i>>

\* Line 48: the ids of the *names* (state_dict() iterates its keys) that
\* have "ffn" and no "grover".
FfnIds(m) ==
    { Id("str", i) : i \in { j \in DOMAIN m :
                               /\ ~Substr("grover", m[j].name)
                               /\ Substr("ffn", m[j].name) } }

\* Lines 49-50: two lazy filters over two fresh model.parameters()
\* generators.  Both lambdas look the local name ffn_params up when they
\* are called, and by then line 50 has rebound it to the second filter, so
\* `in ffn_params` walks that filter (and uses it up).  b and f are the
\* numbers of parameters the two generators have handed out.
RECURSIVE FfnNext(_, _)
RECURSIVE FfnContains(_, _, _)

\* next(ffn_params): [item, f]; item None stands for StopIteration.
FfnNext(n, f) ==
    IF f = n THEN [item |-> None, f |-> f]
    ELSE LET c == FfnContains(n, f + 1, Id("int", f + 1))
         IN  IF c.found THEN [item |-> Some(f + 1), f |-> c.f]
             ELSE FfnNext(n, c.f)

\* `x in ffn_params`: compares x with each parameter the filter yields.
FfnContains(n, f, x) ==
    LET r == FfnNext(n, f)
    IN  IF r.item = None THEN [found |-> FALSE, f |-> r.f]
        ELSE IF Id("Parameter", r.item[1]) = x THEN [found |-> TRUE, f |-> r.f]
        ELSE FfnContains(n, r.f, x)

\* list(base_params) from generator positions b, f: [items, f].
RECURSIVE DrainBase(_, _, _)
DrainBase(n, b, f) ==
    IF b = n THEN [items |-> <<>>, f |-> f]
    ELSE LET c == FfnContains(n, f, Id("int", b + 1))
             rest == DrainBase(n, b + 1, c.f)
         IN  [items |-> IF c.found THEN rest.items ELSE <<b + 1>> \o rest.items,
              f |-> rest.f]

\* list(ffn_params) from generator position f.
RECURSIVE DrainFfn(_, _)
DrainFfn(n, f) ==
    LET r == FfnNext(n, f)
    IN  IF r.item = None THEN <<>> ELSE r.item \o DrainFfn(n, r.f)

\* initialize_optimizer: [err, t].  self._model.state_dict() on a model that
\* is still None raises AttributeError.  With fine_tune_coff 0 the loop of
\* lines 52-53 runs base_params to its end before Adam lists it; Adam lists
\* the base group first, then the ffn group.
InitializeOptimizer(t, c) ==
    IF t["_model"] = None
    THEN [err |-> "AttributeError", t |-> t]
    ELSE LET m == t["_model"][1]
             n == Len(m)
             frozen == IF c.fine_tune_coff = 0
                       THEN DrainBase(n, 0, 0)
                       ELSE [items |-> <<>>, f |-> 0]
             b == IF c.fine_tune_coff = 0 THEN n ELSE 0
             base == DrainBase(n, b, frozen.f)
             ffn == DrainFfn(n, base.f)
             m2 == [i \in DOMAIN m |->
                      IF \E k \in DOMAIN frozen.items : frozen.items[k] = i
                      THEN [m[i] EXCEPT !.requires_grad = FALSE]
                      ELSE m[i]]
             adam == [name |-> "Adam",
                      param_groups |->
                        << [params |-> base.items,
                            lr |-> c.init_lr * c.fine_tune_coff],
                           [params |-> ffn, lr |-> c.init_lr] >>]
         IN  [err |-> "none",
              t |-> [t EXCEPT !["_model"] = Some(m2),
                              !["_optimizer"] = Some(adam)]]

\* initialize_scheduler: self._scheduler = NoamLR(optimizer=self._optimizer, ...)
InitializeScheduler(t) ==
    [t EXCEPT !["_scheduler"] = Some([name |-> "NoamLR", optimizer |-> t["_optimizer"]])]

\* The run of the base Trainer: whether a validation follows training epoch
\* e (valid_epoch_interval 0 disables validation).
ValidateAfter(c, e) ==
    c.valid_epoch_interval > 0 /\ e % c.valid_epoch_interval = 0

TrainerStart ==
    /\ tr = NewTrainer
    /\ tcfg \in [n_epochs : 0..MaxEpochs, valid_epoch_interval : 0..MaxInterval,
                 checkpoint : Checkpoints, init_lr : {2},
                 fine_tune_coff : {0, 1}]
    /\ tpc = "initialize_model"
    /\ tepoch = 0
    /\ tlog = <<>>
    /\ terr = "none"

\* The step the run takes after the initialisation or a validation.
AfterEpoch(c, e) == IF e < c.n_epochs THEN "train_epoch" ELSE "test"

StepInitializeModel ==
    /\ tpc = "initialize_model"
    /\ tr' = InitializeModel(tr, tcfg)
    /\ tlog' = Append(tlog, "initialize_model")
    /\ tpc' = "initialize_optimizer"
    /\ UNCHANGED <<tcfg, tepoch, terr>>

StepInitializeOptimizer ==
    /\ tpc = "initialize_optimizer"
    /\ LET r == InitializeOptimizer(tr, tcfg)
       IN  /\ tr' = r.t
           /\ terr' = r.err
           /\ tpc' = IF r.err = "none" THEN "initialize_scheduler" ELSE "failed"
    /\ tlog' = Append(tlog, "initialize_optimizer")
    /\ UNCHANGED <<tcfg, tepoch>>

StepInitializeScheduler ==
    /\ tpc = "initialize_scheduler"
    /\ tr' = InitializeScheduler(tr)
    /\ tlog' = Append(tlog, "initialize_scheduler")
    /\ tpc' = AfterEpoch(tcfg, tepoch)
    /\ UNCHANGED <<tcfg, tepoch, terr>>

TrainEpoch ==
    /\ tpc = "train_epoch"
    /\ tepoch' = tepoch + 1
    /\ tlog' = Append(tlog, "train_epoch")
    /\ tpc' = IF ValidateAfter(tcfg, tepoch') THEN "validate"
              ELSE AfterEpoch(tcfg, tepoch')
    /\ UNCHANGED <<tr, tcfg, terr>>

Validate ==
    /\ tpc = "validate"
    /\ tlog' = Append(tlog, "validate")
    /\ tpc' = AfterEpoch(tcfg, tepoch)
    /\ UNCHANGED <<tr, tcfg, tepoch, terr>>

Test ==
    /\ tpc = "test"
    /\ tlog' = Append(tlog, "test")
    /\ tpc' = "done"
    /\ UNCHANGED <<tr, tcfg, tepoch, terr>>

---------------------------------------------------------------------------
(* GROVER loss *)

\* Sum of a sequence of integers.
RECURSIVE Sum(_)
Sum(xs) == IF xs = <<>> THEN 0 ELSE xs[1] + Sum(Tail(xs))

\* A float as a fraction; a zero denominator is the 0/0 torch gives as nan.
Frac(num, den) == [num |-> num, den |-> den]

\* F.mse_loss(input, target) with its default reduction 'mean': one
\* scalar, the mean of the squared differences over all elements.
MseLoss(input, target) ==
    Frac(Sum([i \in DOMAIN input |-> (input[i] - target[i]) * (input[i] - target[i])]),
         Len(input))

\* get_distance_loss.  The views of lines 96-103 regroup the elements and
\* leave their values alone, so the arrays are kept flat, one logit per mask
\* entry.  loss * masks scales every mask entry by the scalar loss.
GetDistanceLoss(atom_logits, bond_logits, masks) ==
    LET loss == MseLoss(atom_logits, bond_logits)
        summed == Frac(Sum([i \in DOMAIN masks |-> loss.num * masks[i]]), loss.den)
    IN  Frac(summed.num, summed.den * Sum(masks))

\* get_loss: [err, dist, loss].  The assert of lines 80-81 wants a pair of
\* logit arrays; atom_loss and bond_loss are what the base class returns.
GetLossOp(logits, b, c) ==
    IF Len(logits) # 2
    THEN [err |-> "AssertionError", dist |-> None, loss |-> None]
    ELSE LET dist == GetDistanceLoss(logits[1], logits[2], b.masks)
         IN  [err |-> "none",
              dist |-> Some(dist),
              loss |-> Some(Frac((b.atom_loss + b.bond_loss) * dist.den
                                     + c.dist_coff * dist.num,
                                 dist.den))]

\* Batches of 1..MaxEntries label entries with logits 0..MaxLogit.
Batches ==
    UNION { [logits : UNION { [1..k -> [1..n -> 0..MaxLogit]] : k \in 1..2 },
             masks : [1..n -> {0, 1}],
             atom_loss : {0, 1}, bond_loss : {1}, dist_coff : {2}]
            : n \in 1..MaxEntries }

NoLoss == [op |-> "init", err |-> "none", dist |-> None, loss |-> None]

LossStart ==
    /\ lin \in Batches
    /\ lout = NoLoss

\* trainer.get_distance_loss(atom_logits, bond_logits, batch)
GetDistanceLossCall ==
    /\ Len(lin.logits) = 2
    /\ lout' = [op |-> "get_distance_loss", err |-> "none",
                dist |-> Some(GetDistanceLoss(lin.logits[1], lin.logits[2], lin.masks)),
                loss |-> None]
    /\ UNCHANGED lin

\* trainer.get_loss(logits, batch)
GetLoss ==
    /\ LET r == GetLossOp(lin.logits, lin, lin)
       IN  lout' = [op |-> "get_loss", err |-> r.err, dist |-> r.dist, loss |-> r.loss]
    /\ UNCHANGED lin

---------------------------------------------------------------------------
(* Claims about Config *)

\* The attribute set of a Config: every name of its __dict__ and every data
\* attribute of the class, with the value getattr returns.
Attrs(d) == [a \in DOMAIN d \cup ConfigClassAttrs |-> GetAttr(d, a)]

\* C1: after c.save(dir) followed by Config().load(dir), with c unchanged in
\* between, the loaded Config has the same attribute names and values as c.
C1_RoundTrip == (synced /\ loaded # None) => Attrs(loaded[1]) = Attrs(cfg)

\* The value the specification gives n_lbs for the inputs in d.
NLbsExpected(d) ==
    IF GetAttr(d, "task_type") = "classification"
    THEN IF Len(GetAttr(d, "classes")[1]) = 2
            /\ ~d["binary_classification_with_softmax"]
         THEN 1 ELSE Len(GetAttr(d, "classes")[1])
    ELSE IF d["regression_with_variance"] THEN 2 ELSE 1

NLbsDefined(d) ==
    \/ GetAttr(d, "task_type") = "classification" /\ GetAttr(d, "classes") # None
    \/ GetAttr(d, "task_type") = "regression"

\* C2: whenever n_lbs is derived (a read with nothing cached) under
\* classification with classes set or under regression, the read succeeds
\* and gives 1 for two classes without softmax, else the number of classes;
\* under regression 2 with regression_with_variance, else 1.
C2_NLbsValue ==
    [][(cop' = "n_lbs" /\ "n_lbs" \notin DOMAIN cfg /\ NLbsDefined(cfg))
        => /\ cerr' = "none"
           /\ "n_lbs" \in DOMAIN cfg'
           /\ cfg'["n_lbs"] = Some(NLbsExpected(cfg))]_vars

\* C2 witness: n_lbs was just read as 1 for two classes without softmax.
C2_Witness ==
    /\ cop = "n_lbs"
    /\ "n_lbs" \in DOMAIN cfg
    /\ cfg["n_lbs"] = Some(1)
    /\ GetAttr(cfg, "task_type") = "classification"
    /\ GetAttr(cfg, "classes") = Some(Range0(2))
    /\ ~cfg["binary_classification_with_softmax"]

\* C3: k_swa_checkpoints <= n_swa_epochs in every state of the Arguments
\* and of the Config object.
C3_KSwaClamped ==
    /\ args["k_swa_checkpoints"] <= args["n_swa_epochs"]
    /\ cfg["k_swa_checkpoints"] <= cfg["n_swa_epochs"]

\* C7 (config and meta files): a load that finds no config file, whichever
\* way file_dir names it, and a get_meta that finds no meta.json, fail with
\* FileNotFoundError.
C7_MissingConfigFile ==
    (cop \in {"load", "load_fresh", "get_meta"} /\ cin = None)
        => cerr = "FileNotFoundError"

Keys(json) == {json[i].k : i \in 1..Len(json)}

\* C8: get_meta with meta.json present returns normally, sets exactly the
\* keys of the file that name an attribute of the config, leaves every other
\* attribute as it was and adds no attribute name; from_args and load add no
\* attribute name either.
C8_MergeSkipsUnknown ==
    [][/\ (cop' = "get_meta" /\ cin' # None) =>
            /\ cerr' = "none"
            /\ Dir(cfg') = Dir(cfg)
            /\ \A i \in 1..Len(cin'[1]) :
                  cin'[1][i].k \in Dir(cfg)
                      => GetAttr(cfg', cin'[1][i].k) = cin'[1][i].v
            /\ \A a \in (DOMAIN cfg \cup ConfigClassAttrs) \ Keys(cin'[1]) :
                  GetAttr(cfg', a) = GetAttr(cfg, a)
       /\ cop' \in {"from_args", "load"} => Dir(cfg') = Dir(cfg)]_vars

---------------------------------------------------------------------------
(* Claims about Dataset *)

\* C4: whenever Dataset.masks is derived (its body runs), it is the stored
\* mask array if the CSV had mask values, and otherwise an all-ones array of
\* the shape of the label array.
C4_MasksDefault ==
    [][("masks" \notin DOMAIN ds /\ "masks" \in DOMAIN ds') =>
         IF ds'["_masks"] = None
         THEN /\ \A i \in 1..Len(ds'["masks"]) :
                    \A j \in 1..Len(ds'["masks"][i]) : ds'["masks"][i][j] = 1
              /\ Shape(ds'["masks"]) = Shape(ds'["_lbs"][1])
         ELSE ds'["masks"] = ds'["_masks"][1]]_vars

\* C4 witness: a CSV without mask values was read and masks is all-ones.
C4_Witness ==
    /\ dop.op = "prepare" /\ dop.path = "csv" /\ dop.err = "none"
    /\ ds["_masks"] = None
    /\ "masks" \in DOMAIN ds
    /\ ds["masks"] = OnesLike(ds["_lbs"][1])
    /\ Len(ds["masks"]) = MaxMol

\* C5: the masks get_instances uses have the shape of the current labels.
C5_MasksShape ==
    ("masks" \in DOMAIN ds /\ ds["_lbs"] # None)
        => Shape(ds["masks"]) = Shape(ds["_lbs"][1])

\* The first of two calls prepare(config, partition) with caching enabled:
\* it found no cache file and went through the CSV.
FirstPrepare(o) ==
    /\ o.op = "prepare" /\ o.err = "none"
    /\ ~o.ignore /\ ~o.nosave
    /\ o.path = "csv"

\* C6: a prepare with caching enabled that follows a first one on the same
\* partition loads the cache and gives the same data_instances.
C6_PrepareIdempotent ==
    [][(FirstPrepare(dop) /\ dop'.op = "prepare" /\ dop'.partition = dop.partition
            /\ ~dop'.ignore /\ ~dop'.nosave)
        => /\ dop'.path = "cache"
           /\ dop'.err = "none"
           /\ ds'["data_instances"] = ds["data_instances"]]_vars

\* C6 witness: a prepare took the cache-load path and produced instances.
C6_Witness ==
    /\ dop.op = "prepare" /\ dop.path = "cache" /\ dop.err = "none"
    /\ ~dop.ignore /\ ~dop.nosave
    /\ ds["data_instances"] # None
    /\ Len(ds["data_instances"][1]) = MaxMol

\* C7 (dataset): prepare without a usable cache and without the CSV fails
\* with FileNotFoundError.
C7_MissingCsv ==
    [][(dop'.op = "prepare" /\ dop'.partition \notin DOMAIN csv
            /\ ~UseCache(cache, PreprocessedPath(dcfg, dop'.partition), dop'.ignore))
        => dop'.err = "FileNotFoundError"]_vars

\* The file holds exactly the private attributes of the dataset.
HoldsAttrs(bag, d) ==
    /\ DOMAIN bag = {a \in DOMAIN d : IsPrivateName(a)}
    /\ \A a \in DOMAIN bag : bag[a] = d[a]

---------------------------------------------------------------------------
(* Claims about the Trainer *)

\* The positions of call name in the log.
Calls(name) == {i \in 1..Len(tlog) : tlog[i] = name}

Before(a, b) == \A j \in Calls(b) : \E i \in Calls(a) : i < j

\* C9: initialize_model precedes initialize_optimizer, which precedes
\* initialize_scheduler, which precedes every train_epoch; every validate
\* comes right after a train_epoch; test comes after all n_epochs training
\* epochs and nothing follows it; initialize_optimizer never runs with the
\* model unset nor initialize_scheduler with the optimizer unset.
C9_Lifecycle ==
    /\ Before("initialize_model", "initialize_optimizer")
    /\ Before("initialize_optimizer", "initialize_scheduler")
    /\ Before("initialize_scheduler", "train_epoch")
    /\ \A j \in Calls("validate") : j > 1 /\ tlog[j - 1] = "train_epoch"
    /\ \A j \in Calls("test") :
          /\ j = Len(tlog)
          /\ Cardinality({i \in Calls("train_epoch") : i < j}) = tcfg.n_epochs
    /\ terr = "none"
    /\ Calls("initialize_optimizer") # {} => tr["_model"] # None
    /\ Calls("initialize_scheduler") # {} =>
          /\ tr["_optimizer"] # None
          /\ tr["_scheduler"] # None
          /\ tr["_scheduler"][1].optimizer # None

\* C9 witness: a finished run with validations in it.
C9_Witness ==
    /\ tpc = "done"
    /\ Calls("validate") # {}
    /\ Cardinality(Calls("train_epoch")) = MaxEpochs
    /\ tr["_scheduler"] # None

\* The parameters a group of the optimizer holds.
GroupMembers(group) == { group.params[k] : k \in DOMAIN group.params }

\* The task-head parameters by name: "ffn" in the name and no "grover".
IsTaskHead(name) ==
    /\ \E i \in DOMAIN name : name[i] = "ffn"
    /\ \A i \in DOMAIN name : name[i] # "grover"

\* C11: once initialize_optimizer has built Adam, every parameter whose name
\* has "ffn" and no "grover" is in the task-head group (learning rate
\* init_lr) and every other parameter in the base group (learning rate
\* init_lr * fine_tune_coff), each parameter in exactly one group and once;
\* with fine_tune_coff = 0 exactly the base parameters are frozen.
C11_ParamGroups ==
    tr["_optimizer"] # None =>
        LET m == tr["_model"][1]
            base == tr["_optimizer"][1].param_groups[1]
            head == tr["_optimizer"][1].param_groups[2]
        IN  /\ base.lr = tcfg.init_lr * tcfg.fine_tune_coff
            /\ head.lr = tcfg.init_lr
            /\ GroupMembers(head) = { i \in DOMAIN m : IsTaskHead(m[i].name) }
            /\ GroupMembers(base) = { i \in DOMAIN m : ~IsTaskHead(m[i].name) }
            /\ Len(base.params) + Len(head.params) = Len(m)
            /\ \A i \in DOMAIN m :
                  m[i].requires_grad =
                      ~(tcfg.fine_tune_coff = 0 /\ ~IsTaskHead(m[i].name))

---------------------------------------------------------------------------
(* Claims about the cached properties of Config *)

\* What a derivation of property a from the attributes in d returns.
DerivedFrom(a, d) ==
    IF a = "n_lbs"
    THEN (IF NLbsDefined(d) THEN Some(NLbsExpected(d)) ELSE None)
    ELSE (IF d["feature_type"] = "rdkit" THEN 200 ELSE 0)

\* C13: a read of n_lbs or d_feature that follows an earlier read returns
\* the value that first read returned, whatever get_meta, from_args or load
\* did to the inputs in between; a first read returns the value derived
\* from the inputs as they are at that read.
C13_CachedOnFirstRead ==
    [][\A a \in CachedProps :
          (cop' = a /\ cerr' = "none") =>
              IF a \in DOMAIN cread.first
              THEN cread'.ret = Some(cread.first[a])
              ELSE cread'.ret = Some(DerivedFrom(a, cfg))]_vars

\* C13 witness: n_lbs was just read again and returned its first value,
\* although the inputs have changed and now give another value.
C13_Witness ==
    /\ cop = "n_lbs"
    /\ cerr = "none"
    /\ "n_lbs" \in DOMAIN cread.first
    /\ cread.ret = Some(cread.first["n_lbs"])
    /\ NLbsDefined(cfg)
    /\ cread.first["n_lbs"] # Some(NLbsExpected(cfg))
    /\ "d_feature" \in DOMAIN cread.first
    /\ cread.first["d_feature"] # DerivedFrom("d_feature", cfg)

---------------------------------------------------------------------------
(* Claims about the GROVER loss *)

\* Equality of two fractions; nan (zero denominator) only matches nan.
FracEq(x, y) ==
    IF x.den = 0 \/ y.den = 0 THEN x.den = y.den
    ELSE x.num * y.den = y.num * x.den

\* The squared atom/bond differences summed over the entries with mask 1,
\* divided by the number of those entries.
MaskedMean(atom_logits, bond_logits, masks) ==
    Frac(Sum([i \in DOMAIN masks |->
                 IF masks[i] = 1
                 THEN (atom_logits[i] - bond_logits[i]) * (atom_logits[i] - bond_logits[i])
                 ELSE 0]),
         Cardinality({i \in DOMAIN masks : masks[i] = 1}))

\* C12: the distance loss get_distance_loss returns is the masked mean of
\* the squared differences (so no logit at an entry with mask 0 enters it),
\* and get_loss returns atom_loss + bond_loss + dist_coff times that value.
C12_MaskedLoss ==
    lout.dist # None =>
        LET expected == MaskedMean(lin.logits[1], lin.logits[2], lin.masks)
        IN  /\ FracEq(lout.dist[1], expected)
            /\ lout.loss # None =>
                  FracEq(lout.loss[1],
                         Frac((lin.atom_loss + lin.bond_loss) * expected.den
                                  + lin.dist_coff * expected.num,
                              expected.den))

---------------------------------------------------------------------------
(* Claims about the parallel feature generation *)

\* C14: for the feature types 'rdkit' and 'morgan', with any number of
\* workers finishing in any order, the results taken so far are the
\* generator's values for the first molecules in order; when create_features
\* has returned, features has one entry per SMILES string, entry i being the
\* generator applied to smiles[i], as sequential generation gives; and
\* get_instances pairs feature i with label i and mask i.
C14_FeaturesAligned ==
    dcfg.feature_type \in {"rdkit", "morgan"} =>
        LET smiles == ds["_smiles"][1]
            generated == [i \in DOMAIN smiles |-> <<dcfg.feature_type, smiles[i]>>]
        IN  /\ pool.pc = "imap" =>
                  /\ Len(pool.out) <= Len(smiles)
                  /\ \A i \in DOMAIN pool.out : pool.out[i] = generated[i]
            /\ pool.pc \in {"created", "packed"} =>
                  /\ ds["_features"] = Some(generated)
                  /\ ds["_features"] = CreateFeatures(ds, dcfg)["_features"]
            /\ pool.pc = "packed" =>
                  /\ ds["data_instances"] # None
                  /\ Len(ds["data_instances"][1]) = Len(smiles)
                  /\ \A i \in DOMAIN smiles :
                        ds["data_instances"][1][i] =
                            [features |-> generated[i],
                             lbs |-> ds["_lbs"][1][i],
                             masks |-> ds["masks"][i]]

\* C14 witness: the instances are packed after a run in which a later
\* molecule's result arrived before an earlier one's.
C14_Witness ==
    /\ pool.pc = "packed"
    /\ pool.overtaken
    /\ pool.n_workers >= 2
    /\ dcfg.feature_type = "morgan"
    /\ Len(ds["_smiles"][1]) = MaxMol

---------------------------------------------------------------------------
(* Specifications: each runs one object, the others stay as constructed. *)

TrainerIdle ==
    /\ tr = NewTrainer
    /\ tcfg = [n_epochs |-> 0, valid_epoch_interval |-> 0,
               checkpoint |-> <<<<"readout", "bias">>>>, init_lr |-> 2,
               fine_tune_coff |-> 1]
    /\ tpc = "initialize_model"
    /\ tepoch = 0
    /\ tlog = <<>>
    /\ terr = "none"

DatasetIdle ==
    /\ dcfg = CHOOSE c \in DatasetConfigs : c.class = "dnn" /\ c.feature_type = "none"
    /\ ds = NewDataset("dnn")
    /\ csv = <<>>
    /\ cache = <<>>
    /\ dop = NoOp

PoolIdle == pool = NoPool

LossIdle ==
    /\ lin = [logits |-> << <<0>>, <<0>> >>, masks |-> <<1>>,
              atom_loss |-> 0, bond_loss |-> 1, dist_coff |-> 2]
    /\ lout = NoLoss

ConfigIdle ==
    /\ args = Construct(DefaultArgs)
    /\ cfg = Construct(DefaultArgs)
    /\ disk = None
    /\ loaded = None
    /\ synced = FALSE
    /\ cop = "init"
    /\ cin = None
    /\ cerr = "none"
    /\ cread = NoRead

\* Construction with any pair of SWA counts, then merging, saving, loading.
ConfigInit ==
    ConfigStart(CtorArgs({FALSE}, 0..MaxSwa)) /\ DatasetIdle /\ TrainerIdle /\ LossIdle /\ PoolIdle

ConfigNext ==
    \/ GetMeta /\ UNCHANGED <<dvars, tvars, lvars, pvars>>
    \/ FromArgs /\ UNCHANGED <<dvars, tvars, lvars, pvars>>
    \/ Save /\ UNCHANGED <<dvars, tvars, lvars, pvars>>
    \/ Load /\ UNCHANGED <<dvars, tvars, lvars, pvars>>
    \/ LoadFresh /\ UNCHANGED <<dvars, tvars, lvars, pvars>>
    \/ WriteUserFile /\ UNCHANGED <<dvars, tvars, lvars, pvars>>

SpecConfig == ConfigInit /\ [][ConfigNext]_vars

\* Construction with any flags, then merging and reads of the derived n_lbs.
DerivedInit ==
    ConfigStart(CtorArgs(BOOLEAN, {MaxSwa})) /\ DatasetIdle /\ TrainerIdle /\ LossIdle /\ PoolIdle

DerivedNext ==
    \/ ReadNLbs /\ UNCHANGED <<dvars, tvars, lvars, pvars>>
    \/ GetMeta /\ UNCHANGED <<dvars, tvars, lvars, pvars>>
    \/ FromArgs /\ UNCHANGED <<dvars, tvars, lvars, pvars>>

SpecDerived == DerivedInit /\ [][DerivedNext]_vars

\* One Dataset object, prepared and relabelled in any order.
DatasetNext ==
    \/ Prepare /\ UNCHANGED <<cvars, tvars, lvars, pvars>>
    \/ UpdateLbs /\ UNCHANGED <<cvars, tvars, lvars, pvars>>

DatasetInit == DatasetStart /\ ConfigIdle /\ TrainerIdle /\ LossIdle /\ PoolIdle

SpecDataset == DatasetInit /\ [][DatasetNext]_vars

\* One run of the trainer, from construction to the test.
TrainerNext ==
    \/ StepInitializeModel /\ UNCHANGED <<cvars, dvars, lvars, pvars>>
    \/ StepInitializeOptimizer /\ UNCHANGED <<cvars, dvars, lvars, pvars>>
    \/ StepInitializeScheduler /\ UNCHANGED <<cvars, dvars, lvars, pvars>>
    \/ TrainEpoch /\ UNCHANGED <<cvars, dvars, lvars, pvars>>
    \/ Validate /\ UNCHANGED <<cvars, dvars, lvars, pvars>>
    \/ Test /\ UNCHANGED <<cvars, dvars, lvars, pvars>>

TrainerInit == TrainerStart /\ ConfigIdle /\ DatasetIdle /\ LossIdle /\ PoolIdle

SpecTrainer == TrainerInit /\ [][TrainerNext]_vars

LossInit == LossStart /\ ConfigIdle /\ DatasetIdle /\ TrainerIdle /\ PoolIdle

\* Loss computations on one batch.
LossNext ==
    \/ GetDistanceLossCall /\ UNCHANGED <<cvars, dvars, tvars, pvars>>
    \/ GetLoss /\ UNCHANGED <<cvars, dvars, tvars, pvars>>

SpecLoss == LossInit /\ [][LossNext]_vars

\* Reads of the cached properties between merges, saves and loads.
CachedInit ==
    ConfigStart(CtorArgs({TRUE}, {MaxSwa})) /\ DatasetIdle /\ TrainerIdle /\ LossIdle /\ PoolIdle

CachedNext ==
    \/ ReadNLbs /\ UNCHANGED <<dvars, tvars, lvars, pvars>>
    \/ ReadDFeature /\ UNCHANGED <<dvars, tvars, lvars, pvars>>
    \/ GetMeta /\ UNCHANGED <<dvars, tvars, lvars, pvars>>
    \/ FromArgs /\ UNCHANGED <<dvars, tvars, lvars, pvars>>
    \/ Save /\ UNCHANGED <<dvars, tvars, lvars, pvars>>
    \/ Load /\ UNCHANGED <<dvars, tvars, lvars, pvars>>

SpecCached == CachedInit /\ [][CachedNext]_vars

\* create_features with its pool, then get_instances.
PoolInit == PoolStart /\ ConfigIdle /\ TrainerIdle /\ LossIdle

PoolNext ==
    \/ CreateFeaturesCall /\ UNCHANGED <<cvars, tvars, lvars>>
    \/ WorkerTake /\ UNCHANGED <<cvars, tvars, lvars>>
    \/ WorkerDone /\ UNCHANGED <<cvars, tvars, lvars>>
    \/ NextResult /\ UNCHANGED <<cvars, tvars, lvars>>
    \/ CreateFeaturesReturn /\ UNCHANGED <<cvars, tvars, lvars>>
    \/ GetInstancesCall /\ UNCHANGED <<cvars, tvars, lvars>>

SpecPool == PoolInit /\ [][PoolNext]_vars

====
